---- MODULE Spec2Model ----
(***************************************************************************)
(* tools/grab.py: walk the parent of the working directory three times,    *)
(* for headers, sources and markdown, and print every match to out.txt as  *)
(* a fenced block.  The model follows the script statement by statement,   *)
(* so that an exception raised in the middle of a block is visible in the  *)
(* output.                                                                 *)
(*                                                                         *)
(* Text is a sequence of tokens, every token a tuple of strings:           *)
(*   <<"ch", c>>          one character                                    *)
(*   <<"str", ...>>       a literal string written by the script           *)
(*   <<"path", p1, .., pn, stem, suffix>>   a printed path                 *)
(*   <<"old">>            a character of what out.txt held before run 1    *)
(***************************************************************************)
EXTENDS Integers, Sequences, FiniteSets, TLC

\* ---------------------------------------------------------------- bounds
MaxFiles == 2    \* files in the tree besides out.txt
MaxBytes == 2    \* bytes of content, in all, of the files the walk matches

\* ------------------------------------------------------------ file system
\* A byte is a character of the text, or "BAD": a byte that is not UTF-8.
\* (No carriage return: the newline translation of text mode has nothing to
\* translate.)
Bytes == {"x", "\n", "BAD"}

\* The characters str.rstrip() removes.
Whitespace == {" ", "\t", "\n", "\r"}

DIR == <<"..">>

\* The directory entries a tree may hold, besides out.txt.
Paths ==
    { [parts |-> <<"..", "a">>, stem |-> "b",      suffix |-> ".hpp"],
      [parts |-> <<"..">>,      stem |-> "c",      suffix |-> ".hpp"],
      [parts |-> <<"..", "a">>, stem |-> "b",      suffix |-> ".cpp"],
      [parts |-> <<"..">>,      stem |-> "README", suffix |-> ".md"],
      [parts |-> <<"..">>,      stem |-> "notes",  suffix |-> ".txt"] }

\* What can be known of an entry: whether its name can be encoded as UTF-8,
\* whether it can be opened and read, and the bytes it holds.
\*   access = "ok"     open and read succeed
\*   access = "eopen"  open raises (a directory, no permission)
\*   access = "eread"  open succeeds, read raises (I/O error)
\* An entry no pattern matches is never looked at: one variant stands for all.
Contents(n) == UNION { [1..k -> Bytes] : k \in 0..n }

Walked(p) == p.suffix \in {".hpp", ".cpp", ".md"}

Variants(p, n) ==
    IF Walked(p)
    THEN { [nameOk |-> TRUE, access |-> "ok", bytes |-> b] : b \in Contents(n) }
         \cup { [nameOk |-> TRUE, access |-> a, bytes |-> <<>>] : a \in {"eopen", "eread"} }
         \cup { [nameOk |-> FALSE, access |-> "ok", bytes |-> <<>>] }
    ELSE { [nameOk |-> TRUE, access |-> "ok", bytes |-> <<"x", "\n">>] }

Entry(p, v) ==
    [parts |-> p.parts, stem |-> p.stem, suffix |-> p.suffix,
     nameOk |-> v.nameOk, access |-> v.access, bytes |-> v.bytes]

\* All trees on the paths P with at most n bytes of content in walked files.
RECURSIVE TreesOn(_, _)
TreesOn(P, n) ==
    IF P = {} THEN {{}}
    ELSE LET p == CHOOSE q \in P : TRUE
             Rest(v) == IF Walked(p) THEN n - Len(v.bytes) ELSE n
         IN UNION { { {Entry(p, v)} \cup t : t \in TreesOn(P \ {p}, Rest(v)) }
                    : v \in Variants(p, n) }

Trees ==
    UNION { TreesOn(P, MaxBytes) :
            P \in { Q \in SUBSET Paths : Cardinality(Q) <= MaxFiles } }

\* out.txt is opened in the working directory, a child of DIR, so the walk
\* of DIR meets it.  Its content is the variable out; the bytes field is
\* what a read would find when nothing has been flushed yet.
OutTxt ==
    [parts |-> <<"..", "tools">>, stem |-> "out", suffix |-> ".txt",
     nameOk |-> TRUE, access |-> "ok", bytes |-> <<>>]

\* What out.txt may hold before the first run.
Old == <<"old">>
PriorContents == { <<>>, <<Old>> }

\* ------------------------------------------------------------- the script
VARIABLES
    tree,     \* the files under DIR, besides out.txt (never changes)
    scan,     \* the order in which the file system has enumerated files
    run,      \* "first" or "second": the script is invoked twice
    prior,    \* what out.txt held when the current invocation started
    out,      \* content of out.txt
    pc,       \* position in the script
    loop,     \* which of the three for loops is running
    todo,     \* matches the running rglob has not yielded yet
    file,     \* the loop variable
    text,     \* the value of read_text(...), between read and print
    handles,  \* input files that are open
    visited   \* per file yielded in this run: where its output starts, and
              \* whether its try block ended in the except clause

vars == <<tree, scan, run, prior, out, pc, loop, todo, file, text, handles, visited>>

NoFile == [parts |-> <<>>, stem |-> "", suffix |-> "",
           nameOk |-> TRUE, access |-> "ok", bytes |-> <<>>]

\* The loops in another order: sources before headers.
PatternsSourcesFirst == <<".cpp", ".hpp", ".md">>

Patterns == <<".hpp", ".cpp", ".md">>

NL == <<"ch", "\n">>
Ch(c) == <<"ch", c>>

\* The literals of the script: three backquotes and "cpp"; three backquotes.
OpenFence == <<"str", "fence", "cpp">>
CloseFence == <<"str", "fence">>

\* Path.relative_to(DIR)
RelativeTo(f, dir) == SubSeq(f.parts, Len(dir) + 1, Len(f.parts))

\* str(path): the components, then the file name
PathTok(f) == <<"path">> \o RelativeTo(f, DIR) \o <<f.stem, f.suffix>>

\* bytes.decode('utf-8', errors='ignore'): undecodable bytes are dropped
RECURSIVE Decode(_)
Decode(b) ==
    IF b = <<>> THEN <<>>
    ELSE IF Head(b) = "BAD" THEN Decode(Tail(b))
    ELSE <<Ch(Head(b))>> \o Decode(Tail(b))

\* str.strip() in place of str.rstrip(): leading whitespace goes as well.
RECURSIVE LStrip(_)
LStrip(s) ==
    IF s = <<>> THEN <<>>
    ELSE IF Head(s)[2] \in {" ", "\t", "\n", "\r"} THEN LStrip(Tail(s))
    ELSE s

RECURSIVE Strip(_)
Strip(s) ==
    IF s = <<>> THEN <<>>
    ELSE IF s[Len(s)][2] \in {" ", "\t", "\n", "\r"} THEN Strip(SubSeq(s, 1, Len(s) - 1))
    ELSE LStrip(s)

\* str.rstrip()
RECURSIVE RStrip(_)
RStrip(s) ==
    IF s = <<>> THEN <<>>
    ELSE IF s[Len(s)][2] \in Whitespace THEN RStrip(SubSeq(s, 1, Len(s) - 1))
    ELSE s

\* print(s): the string, then a newline
PrintOf(s) == s \o <<NL>>

\* A pattern that matches every entry.
MatchAny(suffix, f) == TRUE

\* The pattern of the second loop written "*.?pp": it matches headers too.
MatchPP(suffix, f) == f.suffix = suffix \/ (suffix = ".cpp" /\ f.suffix = ".hpp")

\* Path.match for the pattern "*" + suffix
Match(suffix, f) == f.suffix = suffix

\* DIR.rglob("*" + suffix): the entries under DIR that match
RGlob(suffix) == { f \in tree \cup {OutTxt} : Match(suffix, f) }

Init ==
    /\ tree \in Trees
    /\ scan = <<>>
    /\ run = "first"
    /\ prior \in PriorContents
    /\ out = prior
    /\ pc = "start"
    /\ loop = 1
    /\ todo = {}
    /\ file = NoFile
    /\ text = <<>>
    /\ handles = {}
    /\ visited = <<>>

\* open("out.txt", "at"): the file is kept and appended to.
OpenOutAppend ==
    /\ pc = "start"
    /\ out' = out
    /\ loop' = 1
    /\ visited' = <<>>
    /\ pc' = "glob"
    /\ UNCHANGED <<tree, scan, run, prior, todo, file, text, handles>>

\* sys.stdout = open("out.txt", "wt"): the file is truncated
OpenOut ==
    /\ pc = "start"
    /\ out' = <<>>
    /\ loop' = 1
    /\ visited' = <<>>
    /\ pc' = "glob"
    /\ UNCHANGED <<tree, scan, run, prior, todo, file, text, handles>>

\* for file in DIR.rglob(pattern): the generator is created
Glob ==
    /\ pc = "glob"
    /\ todo' = RGlob(Patterns[loop])
    /\ pc' = "for"
    /\ UNCHANGED <<tree, scan, run, prior, out, loop, file, text, handles, visited>>

\* The generator yields the next match.  The file system enumerates in an
\* order of its own; the order is revealed in the first run (scan) and is
\* the same in every later run.
ForNext ==
    /\ pc = "for"
    /\ todo # {}
    /\ \E f \in todo :
        /\ Len(visited) < Len(scan) => f = scan[Len(visited) + 1]
        /\ file' = f
        /\ todo' = todo \ {f}
        /\ scan' = IF Len(visited) < Len(scan) THEN scan ELSE Append(scan, f)
        /\ visited' = Append(visited, [file |-> f, start |-> Len(out) + 1, raised |-> FALSE])
    /\ pc' = "print_path"
    /\ UNCHANGED <<tree, run, prior, out, loop, text, handles>>

\* The generator is exhausted: the next loop starts, or the script ends.
ForEnd ==
    /\ pc = "for"
    /\ todo = {}
    /\ IF loop < Len(Patterns)
       THEN /\ loop' = loop + 1
            /\ pc' = "glob"
       ELSE /\ loop' = loop
            /\ pc' = "done"
    /\ UNCHANGED <<tree, scan, run, prior, out, todo, file, text, handles, visited>>

\* print(f"{file.relative_to(DIR)}"): a name that cannot be encoded raises
\* UnicodeEncodeError before anything is written
PrintPath ==
    /\ pc = "print_path"
    /\ IF file.nameOk
       THEN /\ out' = out \o PrintOf(<<PathTok(file)>>)
            /\ pc' = "print_fence"
       ELSE /\ out' = out
            /\ pc' = "except"
    /\ UNCHANGED <<tree, scan, run, prior, loop, todo, file, text, handles, visited>>

\* print(<fence> + "cpp")
PrintFence ==
    /\ pc = "print_fence"
    /\ out' = out \o PrintOf(<<OpenFence>>)
    /\ pc' = "open"
    /\ UNCHANGED <<tree, scan, run, prior, loop, todo, file, text, handles, visited>>

\* file.read_text(...): with self.open(...) as f
ReadOpen ==
    /\ pc = "open"
    /\ IF file.access = "eopen"
       THEN /\ handles' = handles
            /\ pc' = "except"
       ELSE /\ handles' = handles \cup {file}
            /\ pc' = "read"
    /\ UNCHANGED <<tree, scan, run, prior, out, loop, todo, file, text, visited>>

\* A read without the with block: an exception leaves the file open.
ReadDataLeak ==
    /\ pc = "read"
    /\ IF file.access = "eread"
       THEN /\ text' = text
            /\ handles' = handles
            /\ pc' = "except"
       ELSE /\ text' = Decode(file.bytes)
            /\ handles' = handles
            /\ pc' = "close"
    /\ UNCHANGED <<tree, scan, run, prior, out, loop, todo, file, visited>>

\* file.read_text(...): f.read(); an exception leaves the with block, which
\* closes the file
ReadData ==
    /\ pc = "read"
    /\ IF file.access = "eread"
       THEN /\ text' = text
            /\ handles' = handles \ {file}
            /\ pc' = "except"
       ELSE /\ text' = Decode(file.bytes)
            /\ handles' = handles
            /\ pc' = "close"
    /\ UNCHANGED <<tree, scan, run, prior, out, loop, todo, file, visited>>

\* file.read_text(...): the with block ends
ReadClose ==
    /\ pc = "close"
    /\ handles' = handles \ {file}
    /\ pc' = "print_text"
    /\ UNCHANGED <<tree, scan, run, prior, out, loop, todo, file, text, visited>>

\* print(<text>.rstrip())
PrintText ==
    /\ pc = "print_text"
    /\ out' = out \o PrintOf(RStrip(text))
    /\ text' = <<>>
    /\ pc' = "print_close"
    /\ UNCHANGED <<tree, scan, run, prior, loop, todo, file, handles, visited>>

\* print(<fence> + "\n")
PrintClose ==
    /\ pc = "print_close"
    /\ out' = out \o PrintOf(<<CloseFence, NL>>)
    /\ pc' = "for"
    /\ UNCHANGED <<tree, scan, run, prior, loop, todo, file, text, handles, visited>>

\* The try around the loop instead of inside it: an exception ends the run.
ExceptAbort ==
    /\ pc = "except"
    /\ visited' = [visited EXCEPT ![Len(visited)].raised = TRUE]
    /\ pc' = "done"
    /\ UNCHANGED <<tree, scan, run, prior, out, loop, todo, file, text, handles>>

\* except: pass
ExceptPass ==
    /\ pc = "except"
    /\ visited' = [visited EXCEPT ![Len(visited)].raised = TRUE]
    /\ pc' = "for"
    /\ UNCHANGED <<tree, scan, run, prior, out, loop, todo, file, text, handles>>

\* The script is invoked again on the same tree.
Rerun ==
    /\ pc = "done"
    /\ run = "first"
    /\ run' = "second"
    /\ prior' = out
    /\ pc' = "start"
    /\ todo' = {}
    /\ file' = NoFile
    /\ text' = <<>>
    /\ UNCHANGED <<tree, scan, out, loop, handles, visited>>

Next ==
    \/ OpenOut
    \/ Glob
    \/ ForNext
    \/ ForEnd
    \/ PrintPath
    \/ PrintFence
    \/ ReadOpen
    \/ ReadData
    \/ ReadClose
    \/ PrintText
    \/ PrintClose
    \/ ExceptPass
    \/ Rerun

Spec == Init /\ [][Next]_vars

\* The interpreter runs the script to its end: a step that can be taken is taken.
FairSpec == Spec /\ WF_vars(Next)

\* ------------------------------------------------------------ properties
Extensions == {".hpp", ".cpp", ".md"}
GroupOf(suffix) == CASE suffix = ".hpp" -> 1 [] suffix = ".cpp" -> 2 [] suffix = ".md" -> 3 [] OTHER -> 4

\* The files of the tree the tool is to dump.
Matching == { f \in tree \cup {OutTxt} : f.suffix \in Extensions }

IsPath(tok) == tok[1] = "path"
PathsIn(o) == { i \in 1..Len(o) : IsPath(o[i]) }
Count(o, tok) == Cardinality({ i \in 1..Len(o) : o[i] = tok })

\* The processing of the i-th file of this run has ended.
Ended(i) == i < Len(visited) \/ pc \in {"for", "glob", "done", "start"}

\* What the run wrote while it processed its i-th file.
Segment(i) ==
    SubSeq(out, visited[i].start,
           IF i < Len(visited) THEN visited[i + 1].start - 1 ELSE Len(out))

\* The text of a file: its bytes without those that are not UTF-8.
TextOf(f) ==
    LET sel == SelectSeq(f.bytes, LAMBDA c : c # "BAD")
    IN [i \in 1..Len(sel) |-> <<"ch", sel[i]>>]

\* b is t without its trailing whitespace, and nothing else is missing.
TrailingRemoved(b, t) ==
    /\ Len(b) <= Len(t)
    /\ b = SubSeq(t, 1, Len(b))
    /\ \A m \in (Len(b) + 1)..Len(t) : t[m][2] \in Whitespace
    /\ Len(b) > 0 => b[Len(b)][2] \notin Whitespace

\* s is the block of f: path line, opening fence line, stripped content,
\* closing fence line, blank line.
IsBlockOf(s, f) ==
    LET head == <<(<<"path">> \o Tail(f.parts) \o <<f.stem, f.suffix>>), NL, OpenFence, NL>>
        foot == <<NL, CloseFence, NL, NL>>
        n == Len(s) - Len(head) - Len(foot)
    IN /\ n >= 0
       /\ SubSeq(s, 1, Len(head)) = head
       /\ SubSeq(s, Len(s) - Len(foot) + 1, Len(s)) = foot
       /\ TrailingRemoved(SubSeq(s, Len(head) + 1, Len(head) + n), TextOf(f))

Readable(f) == f.nameOk /\ f.access = "ok"

\* C1: in the output, a block of a .hpp file never comes after a block of a
\* .cpp or .md file, and a block of a .cpp file never after a block of a
\* .md file, whatever the order in which the file system enumerates.
GroupOrder ==
    \A i, j \in PathsIn(out) :
        i < j => GroupOf(out[i][Len(out[i])]) <= GroupOf(out[j][Len(out[j])])

GroupOrderWitness ==
    /\ pc = "done"
    /\ \E i, j \in PathsIn(out) :
        i < j /\ GroupOf(out[i][Len(out[i])]) < GroupOf(out[j][Len(out[j])])

\* C2: what the run writes for a file it reads successfully is exactly the
\* file's block (relative path line, opening fence, content without its
\* trailing whitespace, closing fence, blank line); with a single matching
\* file the whole output is that block.
BlockExact ==
    /\ \A i \in 1..Len(visited) :
        Ended(i) /\ ~visited[i].raised => IsBlockOf(Segment(i), visited[i].file)
    /\ (pc = "done" /\ Cardinality(Matching) = 1 /\ \A f \in Matching : Readable(f))
        => \A f \in Matching : IsBlockOf(out, f)

BlockExactWitness ==
    /\ pc = "done"
    /\ Cardinality(Matching) = 1
    /\ \E f \in Matching : Readable(f) /\ f.bytes = <<"\n", "x">>
    /\ out # <<>>

\* C3: a matching file that cannot be read, or holds bytes that are not
\* UTF-8, leaves nothing in the output: no path line, no fence, no content.
OmittedEntirely ==
    \A i \in 1..Len(visited) :
        (Ended(i) /\ (visited[i].raised \/ \E k \in 1..Len(visited[i].file.bytes) :
                                               visited[i].file.bytes[k] = "BAD"))
            => Segment(i) = <<>>

\* C4: after a file has failed, the run still visits every matching file,
\* writes the block of every later file that can be read, and ends.
ContinuesAfterFailure ==
    (pc = "done" /\ \E i \in 1..Len(visited) : visited[i].raised)
        => /\ \A g \in Matching : \E j \in 1..Len(visited) : visited[j].file = g
           /\ \A i, j \in 1..Len(visited) :
                (i < j /\ visited[i].raised /\ Readable(visited[j].file))
                    => ~visited[j].raised /\ IsBlockOf(Segment(j), visited[j].file)

ContinuesAfterFailureWitness ==
    /\ pc = "done"
    /\ Len(visited) = 2
    /\ visited[1].raised
    /\ ~visited[2].raised
    /\ visited[1].file.suffix = visited[2].file.suffix

\* C5: when no path under the root has one of the three extensions, the run
\* visits nothing and out.txt is empty when it ends.
EmptyWhenNoMatch ==
    (pc = "done" /\ \A f \in tree \cup {OutTxt} : f.suffix \notin Extensions)
        => out = <<>> /\ visited = <<>>

EmptyWhenNoMatchWitness ==
    /\ pc = "done"
    /\ run = "first"
    /\ prior # <<>>
    /\ tree # {}
    /\ \A f \in tree : f.suffix \notin Extensions

\* C6: the second of two runs on the same tree, enumerated in the same
\* order, leaves out.txt exactly as the first run left it.
Idempotent == (run = "second" /\ pc = "done") => out = prior

IdempotentWitness ==
    /\ run = "second"
    /\ pc = "done"
    /\ Len(visited) = 2
    /\ \E i \in 1..2 : visited[i].raised
    /\ \E i \in 1..2 : ~visited[i].raised

\* C7: once out.txt is opened nothing of what it held before is left in it,
\* and what the run writes starts at the beginning of the file.
TruncatedAtStart ==
    pc # "start"
        => /\ Count(out, Old) = 0
           /\ visited # <<>> => visited[1].start = 1
           /\ visited = <<>> => out = <<>>

TruncatedAtStartWitness ==
    /\ pc = "done"
    /\ run = "first"
    /\ prior = <<Old>>
    /\ out # <<>>

\* C8: every run ends, and at its end every matching file has been yielded
\* exactly once, every other file never, and no path is printed twice.
VisitedOnce ==
    /\ \A f \in tree \cup {OutTxt} :
        Cardinality({ i \in 1..Len(visited) : visited[i].file = f })
            = IF f.suffix \in Extensions THEN 1 ELSE 0
    /\ \A i, j \in PathsIn(out) : out[i] = out[j] => i = j

TerminatesVisitedOnce ==
    /\ (pc = "start") ~> (pc = "done")
    /\ [](pc = "done" => VisitedOnce)

TerminatesVisitedOnceWitness ==
    /\ pc = "done"
    /\ run = "second"
    /\ Len(visited) = 2
    /\ Cardinality(PathsIn(out)) = 2

\* C9: at most one input file is open at any time, and none is open when
\* the loop goes on to the next file, whether the read succeeded or failed.
OneHandle ==
    /\ Cardinality(handles) <= 1
    /\ pc \in {"start", "glob", "for", "print_path", "print_fence", "open", "except", "done"}
        => handles = {}

OneHandleWitness ==
    /\ pc = "except"
    /\ file.access = "eread"
    /\ Len(visited) = 2
    /\ handles = {}

\* C10: each time the processing of a file has ended, the output holds as
\* many opening fences as closing fences.
FencesBalanced ==
    pc \in {"for", "glob", "done"} => Count(out, OpenFence) = Count(out, CloseFence)

====
